---- MODULE Spec2Model ----
(***************************************************************************)
(* Pre-authorisation claim workflow of the RCM backend.                    *)
(*                                                                         *)
(* Three code paths are modelled:                                          *)
(*   - the API workflow of app/api/v1/routes/preauthprocess.py, working on *)
(*     the collections preauth_requests and preauth_states;                *)
(*   - the legacy workflow of preauthprocess.py, working on the collection *)
(*     claims (status_history embedded in the claim) and audit_logs, with  *)
(*     the claims created by the form handler of Preauthform.py;           *)
(*   - the claims routes of app/api/v1/routes/claims.py, which create,     *)
(*     update and submit drafts in the collection claims.                  *)
(*                                                                         *)
(* Every request is served by a worker.  A handler is cut into steps at    *)
(* its calls into the document store (and at its read of the clock);       *)
(* everything a handler computes locally around one store call belongs to  *)
(* the step of that call.  Every store call may fail (raise).              *)
(*                                                                         *)
(* The collections live in the document store.  preauth_requests holds a   *)
(* registered request when the program starts: POST /submit is the only    *)
(* writer of new requests in the program, and its validation accepts none. *)
(***************************************************************************)
EXTENDS Integers, Sequences, FiniteSets, TLC

\* ---------------------------------------------------------------- bounds
NumWorkers == 2
MaxRequests == 3
MaxDocs == 1
MaxClaimSeq == 2
MaxClaimRequests == 4

Workers == 1..NumWorkers
DocIds == 1..MaxDocs
ClaimIds == 1..MaxClaimSeq

\* ------------------------------------------------- API workflow: policy
VALID_ROLES == {"preauth_executive", "processor"}

ApiStatuses ==
  {"Preauth Registered", "Need More Info", "Info Submitted", "Preauth Approved",
   "Preauth Denial", "Discharge Submitted", "Discharge NMI",
   "Discharge NMI Submitted", "Discharge Approved", "Discharge Denial"}

\* the lookup with the executive's table as the default for a role that has
\* no table of its own
STATUS_TRANSITIONS_default_role(user_role, current_status) ==
  IF user_role = "processor" THEN
    CASE current_status = "Preauth Registered" ->
           {"Need More Info", "Preauth Approved", "Preauth Denial"}
      [] current_status = "Discharge Submitted" ->
           {"Discharge NMI", "Discharge Approved", "Discharge Denial"}
      [] OTHER -> {}
  ELSE
    CASE current_status = "Preauth Registered" ->
           {"Need More Info", "Preauth Approved", "Preauth Denial"}
      [] current_status = "Need More Info" -> {"Info Submitted"}
      [] current_status = "Discharge Submitted" ->
           {"Discharge NMI", "Discharge Approved", "Discharge Denial"}
      [] current_status = "Discharge NMI" -> {"Discharge NMI Submitted"}
      [] OTHER -> {}

\* STATUS_TRANSITIONS.get(user_role, {}).get(current_status, [])
STATUS_TRANSITIONS(user_role, current_status) ==
  IF user_role = "preauth_executive" THEN
    CASE current_status = "Preauth Registered" ->
           {"Need More Info", "Preauth Approved", "Preauth Denial"}
      [] current_status = "Need More Info" -> {"Info Submitted"}
      [] current_status = "Discharge Submitted" ->
           {"Discharge NMI", "Discharge Approved", "Discharge Denial"}
      [] current_status = "Discharge NMI" -> {"Discharge NMI Submitted"}
      [] OTHER -> {}
  ELSE IF user_role = "processor" THEN
    CASE current_status = "Preauth Registered" ->
           {"Need More Info", "Preauth Approved", "Preauth Denial"}
      [] current_status = "Discharge Submitted" ->
           {"Discharge NMI", "Discharge Approved", "Discharge Denial"}
      [] OTHER -> {}
  ELSE {}

\* the validator with the role's own table not looked up: a transition any
\* recognized role may make is accepted
validate_status_transition_any_role(current_status, new_status, user_role) ==
  IF user_role \notin VALID_ROLES THEN FALSE
  ELSE new_status \in UNION {STATUS_TRANSITIONS(r, current_status) :
                                r \in VALID_ROLES}

\* the validator with a missing entry taken as "no restriction"
validate_status_transition_open(current_status, new_status, user_role) ==
  IF user_role \notin VALID_ROLES THEN FALSE
  ELSE \/ STATUS_TRANSITIONS(user_role, current_status) = {}
       \/ new_status \in STATUS_TRANSITIONS(user_role, current_status)

\* the validator that also accepts the status the claim already has
validate_status_transition_same_status(current_status, new_status, user_role) ==
  IF user_role \notin VALID_ROLES THEN FALSE
  ELSE \/ new_status = current_status
       \/ new_status \in STATUS_TRANSITIONS(user_role, current_status)

validate_status_transition(current_status, new_status, user_role) ==
  IF user_role \notin VALID_ROLES THEN FALSE
  ELSE new_status \in STATUS_TRANSITIONS(user_role, current_status)

\* ---------------------------------------------- legacy workflow: policy
VALID_STATUSES ==
  {"Preauth Registered", "preauth_registered", "Approved", "Need More Info",
   "Info Submitted", "Preauth Denial", "Enhance", "Enhanced",
   "Enhancement Denial", "Discharge Submit", "Discharge NMI",
   "Discharge NMI Submitted", "Discharge Denial", "Discharge Approval"}

LEGACY_ROLES == {"Preauth Executive", "Preauth Processor"}

LEGACY_STATUS_TRANSITIONS(user_role, current_status) ==
  IF user_role = "Preauth Executive" THEN
    CASE current_status \in {"Preauth Registered", "preauth_registered"} ->
           {"Enhance", "Discharge Submit"}
      [] current_status = "Need More Info" -> {"Info Submitted"}
      [] current_status = "Enhance" -> {"Discharge Submit"}
      [] current_status = "Info Submitted" -> {"Enhance", "Discharge Submit"}
      [] current_status = "Approved" -> {"Discharge Submit"}
      [] current_status = "Enhanced" -> {"Discharge Submit"}
      [] OTHER -> {}
  ELSE IF user_role = "Preauth Processor" THEN
    CASE current_status \in {"Preauth Registered", "preauth_registered"} ->
           {"Approved", "Need More Info", "Preauth Denial"}
      [] current_status = "Enhance" -> {"Enhanced", "Enhancement Denial"}
      [] current_status = "Discharge Submit" ->
           {"Discharge NMI", "Discharge Approval", "Discharge Denial"}
      [] current_status = "Discharge NMI" -> {"Discharge NMI Submitted"}
      [] OTHER -> {}
  ELSE {}

legacy_validate_status_transition(current_status, new_status, user_role) ==
  IF current_status \notin VALID_STATUSES \/ new_status \notin VALID_STATUSES
  THEN FALSE
  ELSE IF user_role \notin LEGACY_ROLES THEN FALSE
  ELSE new_status \in LEGACY_STATUS_TRANSITIONS(user_role, current_status)

\* the role matrix as the API documentation states it ('roles' of
\* preauth-process)
DocumentedMatrix(user_role, current_status) ==
  CASE user_role = "preauth_executive" /\ current_status = "Preauth Registered"
         -> {"Need More Info", "Preauth Approved", "Preauth Denial"}
    [] user_role = "preauth_executive" /\ current_status = "Need More Info"
         -> {"Info Submitted"}
    [] user_role = "preauth_executive" /\ current_status = "Discharge Submitted"
         -> {"Discharge NMI", "Discharge Approved", "Discharge Denial"}
    [] user_role = "preauth_executive" /\ current_status = "Discharge NMI"
         -> {"Discharge NMI Submitted"}
    [] user_role = "processor" /\ current_status = "Preauth Registered"
         -> {"Need More Info", "Preauth Approved", "Preauth Denial"}
    [] user_role = "processor" /\ current_status = "Discharge Submitted"
         -> {"Discharge NMI", "Discharge Approved", "Discharge Denial"}
    [] OTHER -> {}

\* --------------------------------------------------------- request inputs
Hospitals == {"HOSP_001", "HOSP_002"}
PreauthIds == {"PA_2024_001"}
\* X-User-Role header values: the two recognized roles and an unrecognized one
RoleInputs == VALID_ROLES \cup {"admin"}
\* new_status values: every status of the table and one outside it
NewStatusInputs == ApiStatuses \cup {"Approved"}
LegacyRoleInputs == LEGACY_ROLES \cup {"processor"}
LegacyStatusInputs ==
  {"Approved", "Need More Info", "Preauth Denial", "Info Submitted",
   "Enhance", "Discharge Submit", "Preauth Approved"}
ActionTypes == {"draft", "cancel", "preauth_registered", "submit"}

\* ------------------------------------------------------------------ state
VARIABLES
  preauth_requests,  \* collection preauth_requests: document id -> document
  preauth_states,    \* collection preauth_states, in the order of the writes
  claims,            \* collection claims: claim id -> document
  audit_logs,        \* collection audit_logs, in the order of the writes
  now,               \* the server clock, as read by datetime.utcnow()
  req,               \* per worker: the request it serves and its position
  completed,         \* the request completed last and the response it got
  started            \* number of requests received so far

vars == <<preauth_requests, preauth_states, claims, audit_logs, now, req,
          completed, started>>

NoDoc ==
  [exists |-> FALSE, preauth_id |-> "", hospital_id |-> "", status |-> "",
   approval |-> FALSE, rejection |-> FALSE, discharge |-> FALSE]

NoClaim ==
  [exists |-> FALSE, status |-> "", status_history |-> <<>>, updated_by |-> "",
   last_notification_status |-> "", complete |-> FALSE]

NoResponse == [code |-> 0, message |-> ""]

IdleReq ==
  [pc |-> "idle", op |-> "none", hospital_id |-> "", preauth_id |-> "",
   claim_id |-> 0, user_role |-> "", new_status |-> "", doc_id |-> 0,
   preauth_data |-> NoDoc, claim_data |-> NoClaim, current_status |-> "",
   changed_at |-> 0, progress |-> "none", response |-> NoResponse,
   allowed_transitions |-> {}, transitions |-> {}, listing |-> {},
   status_history |-> <<>>, errors |-> {}, status_filter |-> "",
   mandatory |-> FALSE]

\* a request document as submission is documented to leave it
RegisteredDoc(preauth_id, hospital_id) ==
  [exists |-> TRUE, preauth_id |-> preauth_id, hospital_id |-> hospital_id,
   status |-> "Preauth Registered", approval |-> FALSE, rejection |-> FALSE,
   discharge |-> FALSE]

\* the collection preauth_requests is kept by the document store and
\* outlives the program: when the program starts it holds registered
\* requests, no two of them of the same hospital with the same preauth_id.
\* The documents have the first ids, and the first one is of HOSP_001 (the
\* hospitals are interchangeable)
InitialStores ==
  {f \in [DocIds -> {NoDoc} \cup {RegisteredDoc(id, h) :
                                    id \in PreauthIds, h \in Hospitals}] :
     /\ f[1].exists /\ f[1].hospital_id = "HOSP_001"
     /\ \A d \in DocIds : (f[d].exists /\ d > 1) => f[d - 1].exists
     /\ \A d, e \in DocIds :
          (d # e /\ f[d].exists /\ f[e].exists)
            => <<f[d].preauth_id, f[d].hospital_id>> #
               <<f[e].preauth_id, f[e].hospital_id>>}

\* a request document in a status of the workflow, with the annotations the
\* writes on the way to that status leave in it: the approval fields from
\* 'Preauth Approved' on, the discharge fields from 'Discharge Submitted'
\* on, the rejection fields in the two denial states
StatusDoc(preauth_id, hospital_id, status) ==
  [exists |-> TRUE, preauth_id |-> preauth_id, hospital_id |-> hospital_id,
   status |-> status,
   approval |-> status \in {"Preauth Approved", "Discharge Submitted",
                            "Discharge NMI", "Discharge NMI Submitted",
                            "Discharge Approved", "Discharge Denial"},
   rejection |-> status \in {"Preauth Denial", "Discharge Denial"},
   discharge |-> status \in {"Discharge Submitted", "Discharge NMI",
                             "Discharge NMI Submitted", "Discharge Approved",
                             "Discharge Denial"}]

\* the stores that hold one request of HOSP_001, in any status of the
\* workflow
StoresInAnyStatus ==
  {[d \in DocIds |-> IF d = 1 THEN StatusDoc("PA_2024_001", "HOSP_001", s)
                     ELSE NoDoc] : s \in ApiStatuses}

Init ==
  /\ preauth_requests \in InitialStores
  /\ preauth_states = <<>>
  /\ claims = [c \in ClaimIds |-> NoClaim]
  /\ audit_logs = <<>>
  /\ now = 0
  /\ req = [p \in Workers |-> IdleReq]
  /\ completed = IdleReq
  /\ started = 0

\* the operations that only read and report
ReadOps ==
  {"get_current_status", "get_status_history", "list_preauth_requests",
   "get_claim_status", "get_status_transitions"}

\* the program starts on a store whose request is anywhere in the workflow
\* (its history was not recorded)
InitAnyStatus ==
  /\ preauth_requests \in StoresInAnyStatus
  /\ preauth_states = <<>>
  /\ claims = [c \in ClaimIds |-> NoClaim]
  /\ audit_logs = <<>>
  /\ now = 0
  /\ req = [p \in Workers |-> IdleReq]
  /\ completed = IdleReq
  /\ started = 0

\* a worker is free to take the next request
Free(p) == req[p].pc = "idle"

Accept(p) == Free(p) /\ started < MaxRequests /\ started' = started + 1

\* the same for a request to the claims routes
AcceptClaim(p) ==
  Free(p) /\ started < MaxClaimRequests /\ started' = started + 1

\* the handler returns.  What is kept of the request is what its response
\* tells: the ids asked for; the status read (when one was read); the role
\* and the new status in the rejection of a transition; the new status and
\* the document in a success; the role in the response of a read; and how
\* far the handler got before it returned
Done(r, code, message) ==
  [r EXCEPT !.pc = "done", !.response = [code |-> code, message |-> message],
            !.preauth_data = NoDoc, !.claim_data = NoClaim, !.changed_at = 0,
            !.user_role = IF message \in {"Invalid status transition",
                                          "Invalid user role"}
                             \/ r.op \in ReadOps
                          THEN @ ELSE "",
            !.new_status = IF code \in {200, 201}
                              \/ message = "Invalid status transition"
                           THEN @ ELSE "",
            !.doc_id = IF code \in {200, 201} THEN @ ELSE 0]

\* worker p moves on to `out`: the next position of its handler, or the
\* response, after which the worker is free again
Continue(p, out) ==
  IF out.pc = "done"
  THEN /\ req' = [req EXCEPT ![p] = IdleReq]
       /\ completed' = out
  ELSE /\ req' = [req EXCEPT ![p] = out]
       /\ UNCHANGED completed

\* .where('preauth_id', '==', preauth_id).where('hospital_id', '==', hospital_id)
Matching(preauth_id, hospital_id) ==
  {d \in DocIds : /\ preauth_requests[d].exists
                  /\ preauth_requests[d].preauth_id = preauth_id
                  /\ preauth_requests[d].hospital_id = hospital_id}

\* .limit(1): the matching document that comes first in document-id order
First(S) == CHOOSE d \in S : \A e \in S : d <= e

\* ======================================================= API workflow
\* the payloads of POST /submit: whether the keys the handler indexes are
\* present, and the values validation looks at
SubmitPayloads ==
  [has_keys : BOOLEAN, patient_id : {"PAT_001"}, estimated_cost : {0, 50000},
   policy_holder_relation : {"", "self"}]

\* PreauthRequest.validate: the list of errors, as a set
PreauthRequest_validate(r) ==
  (IF r.hospital_id = "" THEN {"Hospital ID is required"} ELSE {})
  \cup (IF r.patient_id = "" THEN {"Patient ID is required"} ELSE {})
  \cup (IF r.preauth_id = "" THEN {"Preauth ID is required"} ELSE {})
  \cup (IF r.estimated_cost <= 0
        THEN {"Estimated cost must be greater than 0"} ELSE {})
  \cup (IF r.requested_amount <= 0
        THEN {"Requested amount must be greater than 0"} ELSE {})
  \cup (IF r.status \notin {"pending", "submitted", "under_review", "approved",
                            "rejected", "expired", "cancelled"}
        THEN {"Invalid status"} ELSE {})
  \cup (IF r.policy_holder_relation \notin
             {"self", "spouse", "child", "parent", "sibling", "other"}
        THEN {"Invalid policy holder relation"} ELSE {})

\* POST /submit, up to the write of the request document (lines 85-140)
submit_preauth(p) ==
  /\ Accept(p)
  /\ \E h \in Hospitals, id \in PreauthIds, data \in SubmitPayloads,
        ok \in BOOLEAN :
       LET r == [IdleReq EXCEPT !.op = "submit_preauth", !.hospital_id = h,
                                !.preauth_id = id,
                                !.new_status = "Preauth Registered"]
           preauth_request ==
             [hospital_id |-> h, patient_id |-> data.patient_id,
              preauth_id |-> id, estimated_cost |-> data.estimated_cost,
              requested_amount |-> data.estimated_cost,
              status |-> "Preauth Registered",
              policy_holder_relation |-> data.policy_holder_relation]
           validation_errors == PreauthRequest_validate(preauth_request)
       IN IF ~data.has_keys
          THEN /\ Continue(p, Done(r, 500, "Failed to submit preauth request"))
               /\ UNCHANGED preauth_requests
          ELSE IF validation_errors # {}
          THEN /\ Continue(p, Done([r EXCEPT !.errors = validation_errors],
                                   400, "Validation failed"))
               /\ UNCHANGED preauth_requests
          ELSE IF ~ok
          THEN /\ Continue(p, Done(r, 500, "Failed to submit preauth request"))
               /\ UNCHANGED preauth_requests
          ELSE \E d \in DocIds :
                 /\ ~preauth_requests[d].exists
                 /\ preauth_requests' =
                      [preauth_requests EXCEPT ![d] = RegisteredDoc(id, h)]
                 /\ req' = [req EXCEPT ![p] =
                              [r EXCEPT !.pc = "stamp", !.doc_id = d,
                                        !.progress = "status_written"]]
                 /\ UNCHANGED completed
  /\ UNCHANGED <<preauth_states, claims, audit_logs, now>>

\* update_preauth_status with the new status stored before the transition
\* is validated
update_preauth_status_write_first(p) ==
  /\ Accept(p)
  /\ \E h \in Hospitals, id \in PreauthIds, user_role \in RoleInputs,
        ok \in BOOLEAN :
       LET r == [IdleReq EXCEPT !.op = "update_preauth_status",
                                !.hospital_id = h, !.preauth_id = id,
                                !.user_role = user_role]
           docs == Matching(id, h)
           d == First(docs)
           cur == preauth_requests[d].status
           read == [r EXCEPT !.doc_id = d, !.current_status = cur,
                             !.progress = "read"]
       IN IF user_role \notin VALID_ROLES
          THEN /\ Continue(p, Done(r, 400, "Invalid user role"))
               /\ UNCHANGED preauth_requests
          ELSE IF ~ok
          THEN /\ Continue(p, Done(r, 500, "Failed to update preauth status"))
               /\ UNCHANGED preauth_requests
          ELSE IF docs = {}
          THEN /\ Continue(p, Done(r, 404, "Preauth request not found"))
               /\ UNCHANGED preauth_requests
          ELSE \E new_status \in NewStatusInputs :
                 IF ~validate_status_transition(cur, new_status, user_role)
                 THEN /\ Continue(p, Done([read EXCEPT
                                             !.new_status = new_status,
                                             !.allowed_transitions =
                                                STATUS_TRANSITIONS(user_role, cur)],
                                          400, "Invalid status transition"))
                      /\ preauth_requests' =
                           [preauth_requests EXCEPT ![d].status = new_status]
                 ELSE /\ Continue(p, [read EXCEPT
                                     !.pc = "write", !.new_status = new_status,
                                     !.preauth_data = preauth_requests[d]])
                      /\ UNCHANGED preauth_requests
  /\ UNCHANGED <<preauth_states, claims, audit_logs, now>>

\* PUT /update-status, up to the validation of the transition (lines 179-224).
\* The new status asked for is drawn where the handler first looks at it.
update_preauth_status(p) ==
  /\ Accept(p)
  /\ \E h \in Hospitals, id \in PreauthIds, user_role \in RoleInputs,
        ok \in BOOLEAN :
       LET r == [IdleReq EXCEPT !.op = "update_preauth_status",
                                !.hospital_id = h, !.preauth_id = id,
                                !.user_role = user_role]
           docs == Matching(id, h)
           d == First(docs)
           cur == preauth_requests[d].status
           read == [r EXCEPT !.doc_id = d, !.current_status = cur,
                             !.progress = "read"]
       IN IF user_role \notin VALID_ROLES
          THEN Continue(p, Done(r, 400, "Invalid user role"))
          ELSE IF ~ok
          THEN Continue(p, Done(r, 500, "Failed to update preauth status"))
          ELSE IF docs = {}
          THEN Continue(p, Done(r, 404, "Preauth request not found"))
          ELSE \E new_status \in NewStatusInputs :
                 IF ~validate_status_transition(cur, new_status, user_role)
                 THEN Continue(p, Done([read EXCEPT
                                          !.new_status = new_status,
                                          !.allowed_transitions =
                                             STATUS_TRANSITIONS(user_role, cur)],
                                       400, "Invalid status transition"))
                 ELSE Continue(p, [read EXCEPT
                                     !.pc = "write", !.new_status = new_status,
                                     !.preauth_data = preauth_requests[d]])
  /\ UNCHANGED <<preauth_requests, preauth_states, claims, audit_logs, now>>

\* the document update_preauth_status writes back (lines 226-238)
UpdatedDoc(preauth_data, new_status) ==
  [preauth_data EXCEPT
     !.status = new_status,
     !.approval = IF new_status = "Preauth Approved" THEN TRUE ELSE @,
     !.rejection = IF new_status \in {"Preauth Denial", "Discharge Denial"}
                   THEN TRUE ELSE @]

\* PUT /update-status: the write of the request document (lines 226-241)
update_preauth_status_set(p) ==
  /\ req[p].pc = "write" /\ req[p].op = "update_preauth_status"
  /\ \E ok \in BOOLEAN :
       IF ok
       THEN /\ preauth_requests' =
                 [preauth_requests EXCEPT ![req[p].doc_id] =
                    UpdatedDoc(req[p].preauth_data, req[p].new_status)]
            /\ req' = [req EXCEPT ![p].pc = "stamp",
                                  ![p].progress = "status_written"]
            /\ UNCHANGED completed
       ELSE /\ Continue(p, Done(req[p], 500, "Failed to update preauth status"))
            /\ UNCHANGED preauth_requests
  /\ UNCHANGED <<preauth_states, claims, audit_logs, now, started>>

\* POST /submit-discharge, up to the check of the status (lines 445-476)
submit_discharge(p) ==
  /\ Accept(p)
  /\ \E h \in Hospitals, id \in PreauthIds, ok \in BOOLEAN :
       LET r == [IdleReq EXCEPT !.op = "submit_discharge",
                                !.hospital_id = h, !.preauth_id = id,
                                !.new_status = "Discharge Submitted"]
           docs == Matching(id, h)
           d == First(docs)
           cur == preauth_requests[d].status
           read == [r EXCEPT !.doc_id = d, !.current_status = cur,
                             !.progress = "read"]
       IN Continue(p,
            IF ~ok
            THEN Done(r, 500, "Failed to submit discharge information")
            ELSE IF docs = {}
            THEN Done(r, 404, "Preauth request not found")
            ELSE IF cur # "Preauth Approved"
            THEN Done(read, 400, "Cannot submit discharge")
            ELSE [read EXCEPT !.pc = "write",
                              !.preauth_data = preauth_requests[d]])
  /\ UNCHANGED <<preauth_requests, preauth_states, claims, audit_logs, now>>

\* POST /submit-discharge: the write of the request document (lines 478-488)
submit_discharge_set(p) ==
  /\ req[p].pc = "write" /\ req[p].op = "submit_discharge"
  /\ \E ok \in BOOLEAN :
       IF ok
       THEN /\ preauth_requests' =
                 [preauth_requests EXCEPT ![req[p].doc_id] =
                    [req[p].preauth_data EXCEPT
                       !.status = "Discharge Submitted", !.discharge = TRUE]]
            /\ req' = [req EXCEPT ![p].pc = "stamp",
                                  ![p].progress = "status_written"]
            /\ UNCHANGED completed
       ELSE /\ Continue(p, Done(req[p], 500, "Failed to submit discharge information"))
            /\ UNCHANGED preauth_requests
  /\ UNCHANGED <<preauth_states, claims, audit_logs, now, started>>

\* the state record is built; its changed_at is the clock at that moment,
\* which is later than the clock that any earlier record was built at
create_preauth_state_record(p) ==
  /\ req[p].pc = "stamp"
  /\ now' = now + 1
  /\ req' = [req EXCEPT ![p].pc = "append", ![p].changed_at = now']
  /\ UNCHANGED <<preauth_requests, preauth_states, claims, audit_logs, completed,
                 started>>

FailureMessage(op) ==
  CASE op = "submit_preauth" -> "Failed to submit preauth request"
    [] op = "update_preauth_status" -> "Failed to update preauth status"
    [] OTHER -> "Failed to submit discharge information"

\* the state record is written to preauth_states and the handler returns
preauth_states_set(p) ==
  /\ req[p].pc = "append"
  /\ \E ok \in BOOLEAN :
       IF ok
       THEN /\ preauth_states' = Append(preauth_states,
                 [preauth_id |-> req[p].preauth_id,
                  hospital_id |-> req[p].hospital_id,
                  state |-> req[p].new_status,
                  previous_state |-> req[p].current_status,
                  changed_at |-> req[p].changed_at])
            /\ Continue(p, Done([req[p] EXCEPT !.progress = "history_appended"],
                      IF req[p].op = "submit_preauth" THEN 201 ELSE 200,
                      "success"))
       ELSE /\ Continue(p, Done(req[p], 500, FailureMessage(req[p].op)))
            /\ UNCHANGED preauth_states
  /\ UNCHANGED <<preauth_requests, claims, audit_logs, now, started>>

\* ------------------------------------------------ API workflow: reads
\* the state records of a claim
StateRecords(preauth_id, hospital_id) ==
  {preauth_states[i] : i \in
     {j \in DOMAIN preauth_states :
        /\ preauth_states[j].preauth_id = preauth_id
        /\ preauth_states[j].hospital_id = hospital_id}}

RECURSIVE OrderByChangedAt(_)
OrderByChangedAt(S) ==
  IF S = {} THEN <<>>
  ELSE LET first == CHOOSE x \in S : \A y \in S : x.changed_at <= y.changed_at
       IN <<first>> \o OrderByChangedAt(S \ {first})

\* GET /status-history/<preauth_id>: the state records of the claim in the
\* order of changed_at
get_status_history(preauth_id, hospital_id) ==
  OrderByChangedAt(StateRecords(preauth_id, hospital_id))

\* GET /status-history/<preauth_id> (lines 281-318)
status_history_route(p) ==
  /\ Accept(p)
  /\ \E h \in Hospitals, id \in PreauthIds, ok \in BOOLEAN :
       LET r == [IdleReq EXCEPT !.op = "get_status_history",
                                !.hospital_id = h, !.preauth_id = id]
       IN Continue(p,
            IF ~ok
            THEN Done(r, 500, "Failed to get status history")
            ELSE Done([r EXCEPT !.status_history = get_status_history(id, h)],
                      200, "success"))
  /\ UNCHANGED <<preauth_requests, preauth_states, claims, audit_logs, now>>

\* current-status with every view of a claim logged to audit_logs
get_current_status_logged(p) ==
  /\ Accept(p)
  /\ \E h \in Hospitals, id \in PreauthIds, user_role \in RoleInputs,
        ok \in BOOLEAN :
       LET r == [IdleReq EXCEPT !.op = "get_current_status",
                                !.hospital_id = h, !.preauth_id = id,
                                !.user_role = user_role]
           docs == Matching(id, h)
           d == First(docs)
           cur == preauth_requests[d].status
       IN IF ~ok
          THEN /\ Continue(p, Done(r, 500, "Failed to get current status"))
               /\ UNCHANGED audit_logs
          ELSE IF docs = {}
          THEN /\ Continue(p, Done(r, 404, "Preauth request not found"))
               /\ UNCHANGED audit_logs
          ELSE /\ Continue(p, Done([r EXCEPT !.current_status = cur,
                                             !.progress = "read",
                                             !.allowed_transitions =
                                                STATUS_TRANSITIONS(user_role, cur)],
                                   200, "success"))
               /\ audit_logs' = Append(audit_logs,
                                   [claim_id |-> 0, from_status |-> cur,
                                    to_status |-> cur, user_role |-> user_role])
  /\ UNCHANGED <<preauth_requests, preauth_states, claims, now>>

\* GET /current-status/<preauth_id> (lines 323-372)
get_current_status(p) ==
  /\ Accept(p)
  /\ \E h \in Hospitals, id \in PreauthIds, user_role \in RoleInputs,
        ok \in BOOLEAN :
       LET r == [IdleReq EXCEPT !.op = "get_current_status",
                                !.hospital_id = h, !.preauth_id = id,
                                !.user_role = user_role]
           docs == Matching(id, h)
           d == First(docs)
           cur == preauth_requests[d].status
       IN Continue(p,
            IF ~ok
            THEN Done(r, 500, "Failed to get current status")
            ELSE IF docs = {}
            THEN Done(r, 404, "Preauth request not found")
            ELSE Done([r EXCEPT !.current_status = cur, !.progress = "read",
                                !.allowed_transitions =
                                   STATUS_TRANSITIONS(user_role, cur)],
                      200, "success"))
  /\ UNCHANGED <<preauth_requests, preauth_states, claims, audit_logs, now>>

\* the status values GET /list may be filtered by; "" is no filter
StatusFilters == {"", "Preauth Registered", "Preauth Approved"}

\* GET /list (lines 377-439); the entries are reported without their order
\* and the page holds all of them
list_preauth_requests(p) ==
  /\ Accept(p)
  /\ \E h \in Hospitals, user_role \in RoleInputs,
        status_filter \in StatusFilters, ok \in BOOLEAN :
       LET r == [IdleReq EXCEPT !.op = "list_preauth_requests",
                                !.hospital_id = h, !.user_role = user_role,
                                !.status_filter = status_filter]
           docs == {d \in DocIds :
                      /\ preauth_requests[d].exists
                      /\ preauth_requests[d].hospital_id = h
                      /\ status_filter # ""
                           => preauth_requests[d].status = status_filter}
       IN Continue(p,
            IF ~ok
            THEN Done(r, 500, "Failed to list preauth requests")
            ELSE Done([r EXCEPT !.progress = "read", !.listing =
                         {[id |-> d,
                           preauth_id |-> preauth_requests[d].preauth_id,
                           status |-> preauth_requests[d].status,
                           allowed_transitions |->
                              STATUS_TRANSITIONS(user_role,
                                                 preauth_requests[d].status)] :
                            d \in docs}],
                      200, "success"))
  /\ UNCHANGED <<preauth_requests, preauth_states, claims, audit_logs, now>>

\* ==================================================== legacy workflow
\* POST /submit-preauth of the form, up to the write of the claim document
\* under the generated claim id (lines 364-546).  `mandatory` says whether
\* the form carries every field of mandatory_fields, `valid` whether
\* Claim.validate finds no error
submit_preauth_form(p) ==
  /\ Accept(p)
  /\ \E action_type \in ActionTypes, mandatory \in BOOLEAN, valid \in BOOLEAN,
        c \in ClaimIds, ok \in BOOLEAN :
       LET status == IF action_type = "draft" THEN "draft"
                     ELSE IF action_type = "cancel" THEN "archived"
                     ELSE "preauth_registered"
           r == [IdleReq EXCEPT !.op = "submit_preauth_form", !.claim_id = c,
                                !.new_status = status,
                                !.mandatory = mandatory]
       IN IF action_type = "preauth_registered" /\ ~mandatory
          THEN /\ Continue(p, Done(r, 400, "Missing mandatory fields"))
               /\ UNCHANGED claims
          ELSE IF ~valid
          THEN /\ Continue(p, Done(r, 400, "Validation errors"))
               /\ UNCHANGED claims
          ELSE IF ~ok
          THEN /\ Continue(p, Done(r, 500, "exception"))
               /\ UNCHANGED claims
          ELSE /\ claims' = [claims EXCEPT ![c] =
                    [exists |-> TRUE, status |-> status,
                     status_history |-> <<>>, updated_by |-> "form_user",
                     last_notification_status |-> "", complete |-> FALSE]]
               /\ Continue(p,
                    IF status = "preauth_registered"
                    THEN [r EXCEPT !.pc = "notify", !.progress = "status_written"]
                    ELSE Done([r EXCEPT !.progress = "status_written"],
                              200, "success"))
  /\ UNCHANGED <<preauth_requests, preauth_states, audit_logs, now>>

\* the outcomes of the POST to the notification endpoint: it answers 200,
\* it answers with an error status, or the call raises (connection error,
\* timeout)
NotificationOutcomes == {"sent", "error_status", "raised"}

\* send_preauth_notification, called with the claim id: it updates the
\* claim only if the claim is stored with status 'preauth_registered'
send_preauth_notification(claim_id) ==
  IF claims[claim_id].exists /\ claims[claim_id].status = "preauth_registered"
  THEN [claims EXCEPT ![claim_id].last_notification_status = "sent"]
  ELSE claims

\* the notification step with the exception of the call not caught
submit_preauth_form_notify_uncaught(p) ==
  /\ req[p].pc = "notify"
  /\ \E outcome \in NotificationOutcomes :
       LET sent == /\ outcome = "sent"
                   /\ claims[req[p].claim_id].exists
                   /\ claims[req[p].claim_id].status = "preauth_registered"
       IN /\ claims' = IF outcome = "sent"
                       THEN send_preauth_notification(req[p].claim_id)
                       ELSE claims
          /\ Continue(p,
               IF outcome = "raised"
               THEN Done([req[p] EXCEPT !.progress = "notification_failed"],
                         500, "exception")
               ELSE Done([req[p] EXCEPT !.progress =
                            IF sent THEN "notified" ELSE "notification_failed"],
                         200, "success"))
  /\ UNCHANGED <<preauth_requests, preauth_states, audit_logs, now, started>>

\* POST /submit-preauth of the form: the notification of a registered claim
\* and the response (lines 563-594)
submit_preauth_form_notify(p) ==
  /\ req[p].pc = "notify"
  /\ \E outcome \in NotificationOutcomes :
       LET sent == /\ outcome = "sent"
                   /\ claims[req[p].claim_id].exists
                   /\ claims[req[p].claim_id].status = "preauth_registered"
       IN /\ claims' = IF outcome = "sent"
                       THEN send_preauth_notification(req[p].claim_id)
                       ELSE claims
          /\ Continue(p, Done([req[p] EXCEPT !.progress =
                                 IF sent THEN "notified" ELSE "notification_failed"],
                              200, "success"))
  /\ UNCHANGED <<preauth_requests, preauth_states, audit_logs, now, started>>

\* update_claim_status called by POST /api/update-status, up to the
\* validation of the transition (lines 87-102)
update_claim_status(p) ==
  /\ Accept(p)
  /\ \E c \in ClaimIds, ok \in BOOLEAN :
       LET r == [IdleReq EXCEPT !.op = "update_claim_status", !.claim_id = c]
           cur == claims[c].status
       IN IF ~ok
          THEN Continue(p, Done(r, 400, "exception"))
          ELSE IF ~claims[c].exists
          THEN Continue(p, Done(r, 400, "Claim not found"))
          ELSE \E user_role \in LegacyRoleInputs,
                  new_status \in LegacyStatusInputs :
                 LET read == [r EXCEPT !.current_status = cur,
                                       !.user_role = user_role,
                                       !.progress = "read"]
                 IN IF ~legacy_validate_status_transition(cur, new_status,
                                                          user_role)
                    THEN Continue(p, Done([read EXCEPT
                                             !.new_status = new_status],
                                          400, "Invalid status transition"))
                    ELSE Continue(p, [read EXCEPT
                                        !.pc = "update",
                                        !.new_status = new_status,
                                        !.claim_data = claims[c]])
  /\ UNCHANGED <<preauth_requests, preauth_states, claims, audit_logs, now>>

\* claim_ref.update(update_data) (lines 104-118)
update_claim_status_update(p) ==
  /\ req[p].pc = "update"
  /\ \E ok \in BOOLEAN :
       IF ok
       THEN /\ claims' = [claims EXCEPT ![req[p].claim_id] =
                 [@ EXCEPT
                    !.status = req[p].new_status,
                    !.updated_by = req[p].user_role,
                    !.status_history =
                       Append(req[p].claim_data.status_history,
                              [from_status |-> req[p].current_status,
                               to_status |-> req[p].new_status,
                               updated_by |-> req[p].user_role])]]
            /\ req' = [req EXCEPT ![p].pc = "audit",
                                  ![p].progress = "history_appended"]
            /\ UNCHANGED completed
       ELSE /\ Continue(p, Done(req[p], 400, "exception"))
            /\ UNCHANGED claims
  /\ UNCHANGED <<preauth_requests, preauth_states, audit_logs, now, started>>

\* log_status_change (lines 129-144), then update_claim_status returns True
log_status_change(p) ==
  /\ req[p].pc = "audit"
  /\ \E ok \in BOOLEAN :
       audit_logs' = IF ok
                     THEN Append(audit_logs,
                            [claim_id |-> req[p].claim_id,
                             from_status |-> req[p].current_status,
                             to_status |-> req[p].new_status,
                             user_role |-> req[p].user_role])
                     ELSE audit_logs
  /\ Continue(p, Done(req[p], 200, "Status updated successfully"))
  /\ UNCHANGED <<preauth_requests, preauth_states, claims, now, started>>

\* GET /api/status-transitions/<user_role> (lines 277-286): the table of
\* the role, as the pairs (state, allowed next state)
get_status_transitions(p) ==
  /\ Accept(p)
  /\ \E user_role \in LegacyRoleInputs :
       LET r == [IdleReq EXCEPT !.op = "get_status_transitions",
                                !.user_role = user_role]
       IN Continue(p,
            IF user_role \notin LEGACY_ROLES
            THEN Done(r, 400, "Invalid role")
            ELSE Done([r EXCEPT !.transitions =
                         {<<s, t>> \in VALID_STATUSES \X VALID_STATUSES :
                            t \in LEGACY_STATUS_TRANSITIONS(user_role, s)}],
                      200, "success"))
  /\ UNCHANGED <<preauth_requests, preauth_states, claims, audit_logs, now>>

\* GET /api/claim-status/<claim_id> (lines 288-314): the allowed
\* transitions of both roles, as the pairs (role, allowed next state)
get_claim_status(p) ==
  /\ Accept(p)
  /\ \E c \in ClaimIds, ok \in BOOLEAN :
       LET r == [IdleReq EXCEPT !.op = "get_claim_status", !.claim_id = c]
           cur == claims[c].status
       IN Continue(p,
            IF ~ok
            THEN Done(r, 404, "exception")
            ELSE IF ~claims[c].exists
            THEN Done(r, 404, "Claim not found")
            ELSE Done([r EXCEPT !.current_status = cur, !.progress = "read",
                                !.transitions =
                                   {<<role, t>> \in LEGACY_ROLES \X VALID_STATUSES :
                                      t \in LEGACY_STATUS_TRANSITIONS(role, cur)},
                                !.status_history = claims[c].status_history],
                      200, "success"))
  /\ UNCHANGED <<preauth_requests, preauth_states, claims, audit_logs, now>>

\* ====================================================== claims routes
\* generate_claim_id: CSHLS-<date>-<sequence>, the sequence drawn at random
\* by get_next_claim_sequence; the ids it can return on one day
generate_claim_id == ClaimIds

\* POST /api/v1/claims/, up to the write of the draft under the generated
\* claim id (lines 43-115).  `complete` says whether the claim has the
\* fields validate_claim_for_submission asks for; a new draft does not
create_claim_draft(p) ==
  /\ AcceptClaim(p)
  /\ \E valid \in BOOLEAN, c \in generate_claim_id, ok \in BOOLEAN :
       LET r == [IdleReq EXCEPT !.op = "create_claim_draft", !.claim_id = c,
                                !.new_status = "draft"]
       IN IF ~valid
          THEN /\ Continue(p, Done(r, 400, "Validation failed"))
               /\ UNCHANGED claims
          ELSE IF ~ok
          THEN /\ Continue(p, Done(r, 500, "Internal server error"))
               /\ UNCHANGED claims
          ELSE /\ claims' = [claims EXCEPT ![c] =
                    [exists |-> TRUE, status |-> "draft",
                     status_history |-> <<>>, updated_by |-> "test_user",
                     last_notification_status |-> "", complete |-> FALSE]]
               /\ Continue(p, [r EXCEPT !.pc = "log_creation",
                                        !.progress = "status_written"])
  /\ UNCHANGED <<preauth_requests, preauth_states, audit_logs, now>>

\* the audit record of a claims route; a failure of the write is logged
\* and ignored
LogClaim(action, resource_id) ==
  \E ok \in BOOLEAN :
    audit_logs' = IF ok
                  THEN Append(audit_logs, [action |-> action,
                                           resource_id |-> resource_id])
                  ELSE audit_logs

\* log_claim_creation (lines 871-892), then create_claim_draft returns
log_claim_creation(p) ==
  /\ req[p].pc = "log_creation"
  /\ LogClaim("create_claim", req[p].claim_id)
  /\ Continue(p, Done(req[p], 201, "Claim draft created successfully"))
  /\ UNCHANGED <<preauth_requests, preauth_states, claims, now, started>>

\* PUT /api/v1/claims/<claim_id>, up to the update (lines 218-246).
\* `complete` says whether the payload carries the fields the submission
\* asks for
update_claim_draft(p) ==
  /\ AcceptClaim(p)
  /\ \E c \in ClaimIds, valid \in BOOLEAN, complete \in BOOLEAN,
        ok \in BOOLEAN :
       LET r == [IdleReq EXCEPT !.op = "update_claim_draft", !.claim_id = c]
       IN Continue(p,
            IF ~ok
            THEN Done(r, 500, "Internal server error")
            ELSE IF ~claims[c].exists
            THEN Done(r, 404, "Claim not found")
            ELSE IF ~valid
            THEN Done(r, 400, "Validation failed")
            ELSE [r EXCEPT !.pc = "draft_update",
                           !.current_status = claims[c].status,
                           !.progress = IF complete THEN "complete" ELSE "read"])
  /\ UNCHANGED <<preauth_requests, preauth_states, claims, audit_logs, now>>

\* claim_ref.update(update_data) of update_claim_draft (line 349): the
\* fields of the payload are merged into the stored claim
update_claim_draft_update(p) ==
  /\ req[p].pc = "draft_update"
  /\ \E ok \in BOOLEAN :
       IF ok
       THEN /\ claims' = [claims EXCEPT ![req[p].claim_id] =
                 [@ EXCEPT !.updated_by = "test_user",
                           !.complete = @ \/ req[p].progress = "complete"]]
            /\ req' = [req EXCEPT ![p].pc = "log_update"]
            /\ UNCHANGED completed
       ELSE /\ Continue(p, Done(req[p], 500, "Internal server error"))
            /\ UNCHANGED claims
  /\ UNCHANGED <<preauth_requests, preauth_states, audit_logs, now, started>>

\* log_claim_update (lines 895-916), then update_claim_draft returns
log_claim_update(p) ==
  /\ req[p].pc = "log_update"
  /\ LogClaim("update_claim", req[p].claim_id)
  /\ Continue(p, Done(req[p], 200, "Claim draft updated successfully"))
  /\ UNCHANGED <<preauth_requests, preauth_states, claims, now, started>>

\* POST /api/v1/claims/submit/<claim_id>, up to the update (lines 520-545)
submit_claim(p) ==
  /\ AcceptClaim(p)
  /\ \E c \in ClaimIds, ok \in BOOLEAN :
       LET r == [IdleReq EXCEPT !.op = "submit_claim", !.claim_id = c,
                                !.new_status = "submitted"]
           read == [r EXCEPT !.current_status = claims[c].status,
                             !.progress = "read"]
       IN Continue(p,
            IF ~ok
            THEN Done(r, 500, "Internal server error")
            ELSE IF ~claims[c].exists
            THEN Done(r, 404, "Claim not found")
            ELSE IF claims[c].status # "draft"
            THEN Done(read, 400, "Only draft claims can be submitted")
            ELSE IF ~claims[c].complete
            THEN Done(read, 400, "Validation failed")
            ELSE [read EXCEPT !.pc = "submit_update"])
  /\ UNCHANGED <<preauth_requests, preauth_states, claims, audit_logs, now>>

\* claim_ref.update(update_data) of submit_claim (lines 547-558)
submit_claim_update(p) ==
  /\ req[p].pc = "submit_update"
  /\ \E ok \in BOOLEAN :
       IF ok
       THEN /\ claims' = [claims EXCEPT ![req[p].claim_id] =
                 [@ EXCEPT !.status = "submitted", !.updated_by = "test_user"]]
            /\ req' = [req EXCEPT ![p].pc = "log_submission",
                                  ![p].progress = "status_written"]
            /\ UNCHANGED completed
       ELSE /\ Continue(p, Done(req[p], 500, "Internal server error"))
            /\ UNCHANGED claims
  /\ UNCHANGED <<preauth_requests, preauth_states, audit_logs, now, started>>

\* log_claim_submission (lines 919-940), then submit_claim returns
log_claim_submission(p) ==
  /\ req[p].pc = "log_submission"
  /\ LogClaim("submit_claim", req[p].claim_id)
  /\ Continue(p, Done(req[p], 200, "Claim submitted successfully"))
  /\ UNCHANGED <<preauth_requests, preauth_states, claims, now, started>>

NextApi ==
  \E p \in Workers :
    \/ submit_preauth(p)
    \/ update_preauth_status(p)
    \/ update_preauth_status_set(p)
    \/ submit_discharge(p)
    \/ submit_discharge_set(p)
    \/ create_preauth_state_record(p)
    \/ preauth_states_set(p)

\* the read operations of the API workflow
NextApiRead ==
  \E p \in Workers :
    \/ status_history_route(p)
    \/ get_current_status(p)
    \/ list_preauth_requests(p)

NextLegacy ==
  \E p \in Workers :
    \/ submit_preauth_form(p)
    \/ submit_preauth_form_notify(p)
    \/ update_claim_status(p)
    \/ update_claim_status_update(p)
    \/ log_status_change(p)
    \/ get_status_transitions(p)
    \/ get_claim_status(p)

\* the claims routes, and the form handler that writes to the same collection
NextClaims ==
  \E p \in Workers :
    \/ create_claim_draft(p)
    \/ log_claim_creation(p)
    \/ update_claim_draft(p)
    \/ update_claim_draft_update(p)
    \/ log_claim_update(p)
    \/ submit_claim(p)
    \/ submit_claim_update(p)
    \/ log_claim_submission(p)
    \/ submit_preauth_form(p)
    \/ submit_preauth_form_notify(p)

Next == NextApi \/ NextApiRead \/ NextLegacy

NextRead == NextApi \/ NextApiRead

\* the API workflow
Spec == Init /\ [][NextApi]_vars

\* the legacy workflow
SpecLegacy == Init /\ [][NextLegacy]_vars

\* the API workflow with its read operations
SpecRead == Init /\ [][NextRead]_vars

\* both workflows side by side, with their read operations
SpecAll == Init /\ [][Next]_vars

\* the API workflow on a request that is anywhere in the workflow
SpecAnyStatus == InitAnyStatus /\ [][NextApi]_vars

\* the claims routes and the form
SpecClaims == Init /\ [][NextClaims]_vars

\* ============================================================ properties
\* worker p commits the status write of its request in this step
CommitsWrite(p) == req[p].pc = "write" /\ req'[p].pc = "stamp"

\* worker p returns from its request in this step
Returns(p) == req[p].pc # "idle" /\ req'[p].pc = "idle"

\* a request is received and answered within one step: it returned before
\* its first write
AnsweredAtOnce == started' = started + 1 /\ req' = req

IsSuccess(r) == r.response.code \in {200, 201}

\* C1: two update-status requests that read the same claim in the same
\* status and ask for two different allowed target states never both report
\* success: when the second one reports success, the first one has not
C1_ConflictUnderRace ==
  [][\A q \in Workers :
       ~ ( /\ req[q].op = "update_preauth_status"
           /\ Returns(q) /\ IsSuccess(completed')
           /\ completed.op = "update_preauth_status"
           /\ IsSuccess(completed)
           /\ completed.doc_id = req[q].doc_id
           /\ completed.current_status = req[q].current_status
           /\ completed.new_status # req[q].new_status )]_vars

\* C2: every status write of update-status is applied to a claim whose
\* stored status still is the status that the request read and validated
C2_CompareAndSet ==
  [][\A p \in Workers :
       (req[p].op = "update_preauth_status" /\ CommitsWrite(p))
         => preauth_requests[req[p].doc_id].status = req[p].current_status]_vars

\* C3: in every state, for a claim with at least one state record, the
\* state of the record with the greatest changed_at is the stored status
C3_LastRecordIsStatus ==
  \A h \in Hospitals, id \in PreauthIds :
    LET docs == Matching(id, h)
        history == get_status_history(id, h)
    IN (docs # {} /\ history # <<>>)
         => history[Len(history)].state = preauth_requests[First(docs)].status

\* C4: the update of every update_claim_status call that goes on to return
\* success leaves the stored status_history one record longer, with every
\* record that was stored before still in its place
C4_SingleRecord ==
  [][\A p \in Workers :
       (req[p].pc = "update" /\ req'[p].pc = "audit")
         => LET before == claims[req[p].claim_id].status_history
                after == claims'[req[p].claim_id].status_history
            IN /\ Len(after) = Len(before) + 1
               /\ \A i \in 1..Len(before) : after[i] = before[i]]_vars

\* C5: a step in which an update-status call (API or legacy) is rejected by
\* validation, for its role or for its target state, writes nothing to the
\* store
IsRejection(r) ==
  /\ r.op \in {"update_preauth_status", "update_claim_status"}
  /\ r.response.code = 400
  /\ r.response.message \in {"Invalid user role", "Invalid status transition"}

C5_RejectionPurity ==
  [][(AnsweredAtOnce /\ IsRejection(completed'))
       => /\ preauth_requests' = preauth_requests
          /\ preauth_states' = preauth_states
          /\ claims' = claims
          /\ audit_logs' = audit_logs]_vars

C5_Witness ==
  /\ IsRejection(completed)
  /\ completed.op = "update_preauth_status"
  /\ completed.response.message = "Invalid status transition"
  /\ completed.current_status = "Need More Info"
  /\ preauth_states # <<>>

\* C6: an update-status call that returns a failure response has written
\* neither the status nor a history record
C6_FailureWritesNothing ==
  (/\ completed.op \in {"update_preauth_status", "update_claim_status"}
   /\ completed.response.code \in {400, 404, 500})
     => completed.progress \in {"none", "read"}

\* C7: the response of an update-status call whose history append failed
\* after its status write differs from the response of an update-status
\* call that failed before it wrote anything
C7_PartialFailureDistinguishable ==
  [][\A p \in Workers :
       (/\ req[p].op = "update_preauth_status" /\ Returns(p)
        /\ completed'.progress = "status_written"
        /\ completed.op = "update_preauth_status"
        /\ ~IsSuccess(completed)
        /\ completed.progress \in {"none", "read"})
         => completed'.response # completed.response]_vars

TerminalStatuses ==
  {s \in ApiStatuses : \A r \in VALID_ROLES : STATUS_TRANSITIONS(r, s) = {}}

C10_NotFound ==
  [][(/\ AnsweredAtOnce
      /\ completed'.op = "update_preauth_status"
      /\ Matching(completed'.preauth_id, completed'.hospital_id) = {})
       => \/ completed'.response.code = 404
          \/ completed'.response =
               [code |-> 500, message |-> "Failed to update preauth status"]]_vars

\* C11: a rejection by validation names its cause: the reason given for an
\* illegal transition is given only to a request of a recognized role whose
\* current and proposed states are both recognized states (an unrecognized
\* role and an unrecognized state get reasons of their own)
C11_TypedReasons ==
  (IsRejection(completed)
     /\ completed.response.message = "Invalid status transition")
    => IF completed.op = "update_preauth_status"
       THEN /\ completed.user_role \in VALID_ROLES
            /\ completed.current_status \in ApiStatuses
            /\ completed.new_status \in ApiStatuses
       ELSE /\ completed.user_role \in LEGACY_ROLES
            /\ completed.current_status \in VALID_STATUSES
            /\ completed.new_status \in VALID_STATUSES

\* the states that have an entry under a role in STATUS_TRANSITIONS
TableKeys(user_role) ==
  CASE user_role = "preauth_executive" ->
         {"Preauth Registered", "Need More Info", "Discharge Submitted",
          "Discharge NMI"}
    [] user_role = "processor" -> {"Preauth Registered", "Discharge Submitted"}
    [] OTHER -> {}

LegacyTableKeys(user_role) ==
  CASE user_role = "Preauth Executive" ->
         {"Preauth Registered", "preauth_registered", "Need More Info",
          "Enhance", "Info Submitted", "Approved", "Enhanced"}
    [] user_role = "Preauth Processor" ->
         {"Preauth Registered", "preauth_registered", "Enhance",
          "Discharge Submit", "Discharge NMI"}
    [] OTHER -> {}

\* the lookups of update-status, current-status, list and claim-status
\* answer a role that is not a key of the table, and a state without an
\* entry under the role, with the empty set and not with an error
LookupsAreClosed ==
  /\ (/\ completed.op \in {"update_preauth_status", "get_current_status"}
      /\ completed.progress = "read"
      /\ completed.current_status \notin TableKeys(completed.user_role))
       => completed.allowed_transitions = {}
  /\ (completed.op = "get_current_status" /\ completed.progress = "read")
       => IsSuccess(completed)
  /\ (completed.op = "list_preauth_requests" /\ completed.progress = "read")
       => /\ IsSuccess(completed)
          /\ \A e \in completed.listing :
               e.status \notin TableKeys(completed.user_role)
                 => e.allowed_transitions = {}
  /\ (completed.op = "get_claim_status" /\ completed.progress = "read")
       => /\ IsSuccess(completed)
          /\ \A role \in LEGACY_ROLES :
               completed.current_status \notin LegacyTableKeys(role)
                 => \A t \in VALID_STATUSES : <<role, t>> \notin completed.transitions

\* C12 as stated: wherever the table is consulted for a role that is not a
\* key of it, or for a state without an entry under the role, the answer is
\* the empty set of allowed next states and never an error: in the
\* rejection of update-status, in current-status, in list, in claim-status
\* and in status-transitions
C12_Closure ==
  /\ LookupsAreClosed
  /\ (completed.op = "get_status_transitions"
        /\ completed.user_role \notin LEGACY_ROLES)
       => IsSuccess(completed) /\ completed.transitions = {}

\* C12, amended: the lookups of update-status, current-status, list and
\* claim-status are closed; status-transitions answers a role that is not
\* a key of the table with the error 'Invalid role' and no table
C12_ClosureOfLookups ==
  /\ LookupsAreClosed
  /\ (completed.op = "get_status_transitions"
        /\ completed.user_role \notin LEGACY_ROLES)
       => /\ completed.response = [code |-> 400, message |-> "Invalid role"]
          /\ completed.transitions = {}

C12_Witness ==
  /\ completed.op = "get_current_status"
  /\ completed.user_role = "admin"
  /\ completed.current_status = "Need More Info"
  /\ IsSuccess(completed)
  /\ completed.allowed_transitions = {}

\* an update-status request arrives right after the answer of current-status
\* to the same role for the same claim, whose stored status still is the
\* one that was reported
UpdateFollowsRead(r) ==
  /\ started' = started + 1
  /\ completed.op = "get_current_status" /\ IsSuccess(completed)
  /\ r.op = "update_preauth_status"
  /\ r.hospital_id = completed.hospital_id
  /\ r.preauth_id = completed.preauth_id
  /\ r.user_role = completed.user_role
  /\ LET docs == Matching(completed.preauth_id, completed.hospital_id)
     IN docs # {} /\ preauth_requests[First(docs)].status = completed.current_status

\* C13: the set current-status reports for (role, stored status) contains T
\* exactly if an update-status request of that role to T, with no change
\* of the claim in between, passes validation; and the set in the
\* rejection of update-status is the set current-status reported
C13_ReaderValidatorAgree ==
  [][/\ \A p \in Workers :
          (Free(p) /\ UpdateFollowsRead(req'[p]) /\ req'[p].pc = "write")
            => req'[p].new_status \in completed.allowed_transitions
     /\ (UpdateFollowsRead(completed') /\ req' = req
           /\ completed'.response.message = "Invalid status transition")
          => /\ completed'.new_status \notin completed.allowed_transitions
             /\ completed'.allowed_transitions = completed.allowed_transitions
     /\ (UpdateFollowsRead(completed') /\ req' = req
           /\ completed'.response.message = "Invalid user role")
          => completed.allowed_transitions = {}]_vars

C13_Witness ==
  \E p \in Workers :
    /\ req[p].op = "update_preauth_status" /\ req[p].pc = "write"
    /\ completed.op = "get_current_status" /\ IsSuccess(completed)
    /\ completed.user_role = req[p].user_role
    /\ completed.hospital_id = req[p].hospital_id
    /\ completed.preauth_id = req[p].preauth_id
    /\ completed.current_status = req[p].current_status
    /\ req[p].new_status \in completed.allowed_transitions

\* the sequence is non-decreasing in changed_at
NonDecreasing(history) ==
  \A i \in 1..Len(history) : \A j \in i..Len(history) :
    history[i].changed_at <= history[j].changed_at

\* workers p and q have both committed their status write to the same claim
\* and neither has built its state record yet; the stored status is the one
\* q wrote and not the one p wrote, so q's write was committed after p's
CommittedAfter(q, p) ==
  /\ p # q
  /\ req[p].pc = "stamp" /\ req[q].pc = "stamp"
  /\ req[p].doc_id = req[q].doc_id
  /\ req[p].new_status # req[q].new_status
  /\ preauth_requests[req[q].doc_id].status = req[q].new_status
  /\ \A w \in Workers \ {p, q} : req[w].pc = "idle"

\* C14: the sequence status-history returns is non-decreasing in changed_at,
\* and of two requests that race on a claim the one whose status write was
\* committed later does not get the earlier changed_at
C14_HistoryOrder ==
  [][/\ \A h \in Hospitals, id \in PreauthIds :
          NonDecreasing(get_status_history(id, h))
     /\ \A p, q \in Workers :
          CommittedAfter(q, p) => ~(req'[q].pc = "append")]_vars

\* the validation errors that are about a field of the submitted payload
FieldErrors ==
  {"Hospital ID is required", "Patient ID is required",
   "Preauth ID is required", "Estimated cost must be greater than 0",
   "Requested amount must be greater than 0",
   "Invalid policy holder relation"}

\* C16: a submit request that carries every required field with a valid
\* value is not rejected by validation: a submit answered 'Validation
\* failed' has an error about one of its fields
C16_ValidSubmitSucceeds ==
  (completed.op = "submit_preauth" /\ completed.response.code = 400)
    => completed.errors \cap FieldErrors # {}

\* C17: in every state, the status of every stored claim of the collection
\* claims is a member of VALID_STATUSES
C17_KnownStatus ==
  \A c \in ClaimIds : claims[c].exists => claims[c].status \in VALID_STATUSES

\* C19: the step in which the form handler returns after a notification
\* that failed (an error status or a raised call) leaves every stored claim
\* as it is and reports the submission of the 'preauth_registered' claim
\* as successful
C19_NotificationFailureIgnored ==
  [][\A p \in Workers :
       (/\ req[p].pc = "notify" /\ Returns(p)
        /\ completed'.progress = "notification_failed")
         => /\ claims' = claims
            /\ IsSuccess(completed')
            /\ completed'.new_status = "preauth_registered"
            /\ completed'.claim_id = req[p].claim_id]_vars

C19_Witness ==
  /\ completed.op = "submit_preauth_form"
  /\ completed.progress = "notification_failed"
  /\ IsSuccess(completed)
  /\ claims[completed.claim_id].exists
  /\ claims[completed.claim_id].status = "preauth_registered"
  /\ claims[completed.claim_id].last_notification_status = ""

\* the update-status steps of the documented workflow: role, status before,
\* status asked for
WorkflowSteps ==
  {<<"preauth_executive", "Preauth Registered", "Need More Info">>,
   <<"preauth_executive", "Need More Info", "Info Submitted">>,
   <<"processor", "Info Submitted", "Preauth Approved">>,
   <<"processor", "Discharge Submitted", "Discharge Approved">>}

\* C20: no step of the documented workflow is rejected: an update-status
\* request that is one of its steps on a claim in the status the step
\* starts from is not answered as an invalid transition, and
\* submit-discharge on a claim at 'Preauth Approved' is not refused
C20_WorkflowExecutable ==
  /\ (/\ completed.op = "update_preauth_status"
      /\ completed.response.message = "Invalid status transition")
       => <<completed.user_role, completed.current_status,
            completed.new_status>> \notin WorkflowSteps
  /\ (/\ completed.op = "submit_discharge"
      /\ completed.response.message = "Cannot submit discharge")
       => completed.current_status # "Preauth Approved"

DischargeRecords(preauth_id, hospital_id) ==
  {i \in DOMAIN preauth_states :
     /\ preauth_states[i].preauth_id = preauth_id
     /\ preauth_states[i].hospital_id = hospital_id
     /\ preauth_states[i].previous_state = "Preauth Approved"
     /\ preauth_states[i].state = "Discharge Submitted"}

\* C22: the status write of submit-discharge is applied to a claim whose
\* stored status is 'Preauth Approved' at that moment, a refused
\* submit-discharge writes nothing, and the history of a claim holds at
\* most one record 'Preauth Approved' -> 'Discharge Submitted'
C22_DischargeOnce ==
  [][/\ \A p \in Workers :
          (req[p].op = "submit_discharge" /\ CommitsWrite(p))
            => preauth_requests[req[p].doc_id].status = "Preauth Approved"
     /\ (/\ AnsweredAtOnce /\ completed'.op = "submit_discharge"
         /\ completed'.response.code \in {400, 404})
          => /\ preauth_requests' = preauth_requests
             /\ preauth_states' = preauth_states
     /\ \A h \in Hospitals, id \in PreauthIds :
          Cardinality(DischargeRecords(id, h)') <= 1]_vars

DenialStatuses == {"Preauth Denial", "Discharge Denial"}

\* the adjudications in the recorded history of a claim
RecordedAdjudications(preauth_id, hospital_id) ==
  {r.state : r \in StateRecords(preauth_id, hospital_id)}
    \cap ({"Preauth Approved"} \cup DenialStatuses)

\* no request is in flight, and a claim whose recorded adjudications are
\* denials only has no approval fields, a claim whose only recorded
\* adjudication is the approval has no rejection fields
StampsMatchHistory ==
  (\A p \in Workers : Free(p))
    => \A d \in DocIds :
         preauth_requests[d].exists
           => LET recorded ==
                    RecordedAdjudications(preauth_requests[d].preauth_id,
                                          preauth_requests[d].hospital_id)
              IN /\ (recorded # {} /\ recorded \subseteq DenialStatuses)
                      => ~preauth_requests[d].approval
                 /\ recorded = {"Preauth Approved"}
                      => ~preauth_requests[d].rejection

\* C23: the approval fields of a claim are set only by the write of a
\* transition to 'Preauth Approved' and the rejection fields only by the
\* write of a transition to a denial state, and once the requests have
\* completed a claim whose only recorded adjudication is a denial has no
\* approval fields, and the other way round
C23_StampsCoupled ==
  [][/\ \A d \in DocIds :
          /\ (~preauth_requests[d].approval /\ preauth_requests'[d].approval)
               => \E p \in Workers :
                    /\ CommitsWrite(p) /\ req[p].doc_id = d
                    /\ req[p].new_status = "Preauth Approved"
          /\ (~preauth_requests[d].rejection /\ preauth_requests'[d].rejection)
               => \E p \in Workers :
                    /\ CommitsWrite(p) /\ req[p].doc_id = d
                    /\ req[p].new_status \in DenialStatuses
     /\ StampsMatchHistory']_vars

\* the operations of the API workflow that are given a claim id
ScopedOps ==
  {"update_preauth_status", "submit_discharge", "get_current_status",
   "get_status_history"}

\* the claim id is stored, but under other hospitals only
OnlyUnderAnotherHospital(preauth_id, hospital_id) ==
  /\ Matching(preauth_id, hospital_id) = {}
  /\ \E h \in Hospitals \ {hospital_id} : Matching(preauth_id, h) # {}

\* C24: a request made with hospital scope H changes no claim and appends
\* no history record of another hospital, its response holds no claim and
\* no history record of another hospital, and a request for a claim id
\* that is stored under another hospital only is answered with not-found
\* (or with the failure of the store)
C24_TenantScope ==
  [][/\ \A p \in Workers :
          LET h == IF Free(p) THEN (IF req'[p].pc = "idle"
                                    THEN completed'.hospital_id
                                    ELSE req'[p].hospital_id)
                   ELSE req[p].hospital_id
          IN (req'[p] # req[p] \/ (Free(p) /\ AnsweredAtOnce))
               => /\ \A d \in DocIds :
                       preauth_requests'[d] # preauth_requests[d]
                         => /\ preauth_requests[d].hospital_id \in {h, ""}
                            /\ preauth_requests'[d].hospital_id = h
                  /\ \A i \in DOMAIN preauth_states' \ DOMAIN preauth_states :
                       preauth_states'[i].hospital_id = h
     /\ (AnsweredAtOnce /\ completed'.op = "list_preauth_requests")
          => \A e \in completed'.listing :
               preauth_requests[e.id].hospital_id = completed'.hospital_id
     /\ (AnsweredAtOnce /\ completed'.op = "get_status_history")
          => \A i \in DOMAIN completed'.status_history :
               completed'.status_history[i].hospital_id = completed'.hospital_id
     /\ (/\ AnsweredAtOnce /\ completed'.op \in ScopedOps
         /\ OnlyUnderAnotherHospital(completed'.preauth_id,
                                     completed'.hospital_id))
          => completed'.response.code \in {404, 500}]_vars

\* a request is answered in the step that receives it, by a read operation
ReadStep == AnsweredAtOnce /\ completed'.op \in ReadOps

\* the step that holds the validation of an update-status request: the
\* request is rejected by it, or goes on to its write
ValidationStep ==
  /\ started' = started + 1
  /\ \/ AnsweredAtOnce /\ IsRejection(completed')
     \/ \E p \in Workers : Free(p) /\ req'[p].pc \in {"write", "update"}

\* the store did not answer
IsStoreFailure(r) == r.response.code = 500 \/ r.response.message = "exception"

\* the same read operation is asked for again with the same inputs, and
\* nothing has happened since it was answered the last time: no request is
\* in flight and no other request has completed since
AskedAgain ==
  /\ ReadStep
  /\ \A p \in Workers : Free(p)
  /\ completed.op = completed'.op
  /\ completed.hospital_id = completed'.hospital_id
  /\ completed.preauth_id = completed'.preauth_id
  /\ completed.claim_id = completed'.claim_id
  /\ completed.user_role = completed'.user_role
  /\ completed.status_filter = completed'.status_filter

\* C25: the step of a read operation (status-history, current-status, list,
\* claim-status, status-transitions) and the step in which a transition is
\* validated leave every claim, history record and audit record unchanged,
\* and a read asked again with nothing written in between is answered as
\* it was before (unless the store fails to answer)
C25_ReadsArePure ==
  [][/\ (ReadStep \/ ValidationStep)
          => /\ preauth_requests' = preauth_requests
             /\ preauth_states' = preauth_states
             /\ claims' = claims
             /\ audit_logs' = audit_logs
     /\ (AskedAgain /\ ~IsStoreFailure(completed)
           /\ ~IsStoreFailure(completed'))
          => completed' = completed]_vars

\* the history of a claim with a recorded transition has been read, and
\* read again, after the request that made the transition
C25_Witness ==
  /\ completed.op = "get_status_history"
  /\ IsSuccess(completed)
  /\ Len(completed.status_history) = 1
  /\ completed.status_history = get_status_history(completed.preauth_id,
                                                    completed.hospital_id)
  /\ started = 3
  /\ \A p \in Workers : Free(p)

\* each record of the sequence starts from the state the record before it
\* ended in
IsChain(history) ==
  \A i \in 2..Len(history) : history[i].previous_state = history[i - 1].state

LegacyIsChain(history) ==
  \A i \in 2..Len(history) : history[i].from_status = history[i - 1].to_status

\* no request is in flight and the history of every claim is a chain
HistoriesAreChains ==
  (\A p \in Workers : Free(p))
    => /\ \A h \in Hospitals, id \in PreauthIds :
            IsChain(get_status_history(id, h))
       /\ \A c \in ClaimIds : LegacyIsChain(claims[c].status_history)

\* C26: once the requests have completed the history of every claim, in
\* the order of its timestamps, is a chain, and the pair (previous state,
\* new state) that a request records is the change its write made to the
\* stored status
C26_HistoryIsChain ==
  [][/\ HistoriesAreChains'
     /\ \A p \in Workers :
          /\ (req[p].op = "update_preauth_status" /\ CommitsWrite(p))
               => /\ preauth_requests[req[p].doc_id].status =
                       req[p].current_status
                  /\ preauth_requests'[req[p].doc_id].status =
                       req[p].new_status
          /\ (req[p].pc = "update" /\ req'[p].pc = "audit")
               => /\ claims[req[p].claim_id].status = req[p].current_status
                  /\ claims'[req[p].claim_id].status = req[p].new_status]_vars

CreateOps == {"create_claim_draft", "submit_preauth_form"}

\* a request that creates a claim is received in this step and stores its
\* claim under claim id c
Creates(c) ==
  /\ started' = started + 1
  /\ \/ /\ req' = req
        /\ completed'.op \in CreateOps /\ completed'.claim_id = c
        /\ completed'.progress = "status_written"
     \/ \E p \in Workers :
          /\ Free(p)
          /\ req'[p].op \in CreateOps /\ req'[p].claim_id = c
          /\ req'[p].progress = "status_written"

\* C27: the claim id under which create_claim_draft or submit_preauth_form
\* stores a new claim is the id of no claim stored before, so that no
\* stored claim is replaced
C27_CreationNeverOverwrites ==
  [][\A c \in ClaimIds : Creates(c) => ~claims[c].exists]_vars

\* the audit records of the submission of a claim
SubmissionRecords(c) ==
  {i \in DOMAIN audit_logs :
     audit_logs[i] = [action |-> "submit_claim", resource_id |-> c]}

\* C28: the update of submit_claim is applied to a claim whose stored
\* status is 'draft' at that moment, at most one submission audit record
\* is written for a claim, and a submit refused because the claim is not a
\* draft writes nothing
C28_SubmitOnce ==
  [][/\ \A p \in Workers :
          (req[p].pc = "submit_update" /\ req'[p].pc = "log_submission")
            => claims[req[p].claim_id].status = "draft"
     /\ \A c \in ClaimIds : Cardinality(SubmissionRecords(c)') <= 1
     /\ (/\ AnsweredAtOnce /\ completed'.op = "submit_claim"
         /\ completed'.response.message = "Only draft claims can be submitted")
          => claims' = claims /\ audit_logs' = audit_logs]_vars

\* C29: the form handler stores a claim with status 'preauth_registered'
\* only for a request that supplied every mandatory field, whatever its
\* action_type, and a request refused for a missing mandatory field
\* stores nothing
C29_RegisteredHasMandatoryFields ==
  [][/\ \A p \in Workers :
          (/\ Free(p) /\ req'[p].op = "submit_preauth_form"
           /\ req'[p].pc = "notify")
            => /\ claims'[req'[p].claim_id].status = "preauth_registered"
               /\ req'[p].mandatory
     /\ (/\ AnsweredAtOnce /\ completed'.op = "submit_preauth_form"
         /\ completed'.response.message = "Missing mandatory fields")
          => claims' = claims]_vars

====
